---- MODULE Spec2Model ----
(***************************************************************************)
(* A model of parseAndOrganizeData (src/index.tsx, lines 61-216): the      *)
(* parser that turns the semicolon-delimited log into the Report           *)
(* (item -> graphs, standardTables, pivotTables).                          *)
(*                                                                         *)
(* Text is modelled as it is in the program: a string is a sequence of     *)
(* one-character strings, and the model splits, trims, parses and formats  *)
(* it character by character.  A JavaScript number is modelled as an       *)
(* integer-valued IEEE-754 double: sign and decimal magnitude, rounded to  *)
(* the nearest representable double (ties to even) after every parse and   *)
(* every addition.                                                         *)
(***************************************************************************)
EXTENDS Integers, Sequences, FiniteSets, Bags, TLC

VARIABLES
    rawData,       \* the argument of the running invocation
    rawLines,      \* const rawLines (line 63)
    lineIdx,       \* number of rawLines the forEach of line 81 has consumed
    processed,     \* const processed (line 62): the Report under construction
    rawTableData,  \* const rawTableData (line 72)
    ObjectCtor,    \* own properties the runs added to the global Object function
    pc,            \* "lines" | "sort" | "done" | "threw"; "idle": no invocation
    calls,         \* number of invocations started so far
    history,       \* text and outcome of the invocations that ended, in order
    status,        \* App state status (line 358)
    processedData, \* App state processedData (line 360): Null or a Report
    availableTabs, \* App state availableTabs (line 370)
    activeTab,     \* App state activeTab (line 371): NoTab or a tab name
    connectionStatus, \* App state connectionStatus (line 362)
    pollingRef,    \* pollingRef.current (line 373)
    timers,        \* the interval timers set and not cleared
    timerCount,    \* number of window.setInterval calls so far
    posts,         \* POST /monitor requests awaiting their response
    polls,         \* GET /status requests awaiting their response: a bag of
                   \* the timers that sent them
    reads          \* FileReader reads in progress

parserVars == <<rawData, rawLines, lineIdx, processed, rawTableData, ObjectCtor, pc>>
callVars == <<calls, history>>
appVars == <<status, processedData, availableTabs, activeTab, connectionStatus,
            pollingRef, timers, timerCount, posts, polls, reads>>
vars == <<parserVars, callVars, appVars>>

\* Bounds of the model: the number of lines of an input text, and the
\* number of invocations in one realm.
MaxLines == 3
MaxCalls == 3

---------------------------------------------------------------------------
(* Characters and strings *)

\* White space as String.prototype.trim, parseInt and parseFloat skip it.
WhiteSpace == {" ", "\t", "\r", "\n"}

DigitChars == <<"0", "1", "2", "3", "4", "5", "6", "7", "8", "9">>

IsDigit(c) == \E i \in 1..10 : DigitChars[i] = c

DigitVal(c) == (CHOOSE i \in 1..10 : DigitChars[i] = c) - 1

\* The value undefined: no string (every string is made of one-character
\* strings), so it is distinct from every string of the program.
Undefined == <<"undefined">>

\* String(v) for a string or undefined.
ToStr(v) == IF v = Undefined
            THEN <<"u", "n", "d", "e", "f", "i", "n", "e", "d">>
            ELSE v

RECURSIVE Split(_, _)
\* String.prototype.split(sep) for a one-character separator.
Split(s, sep) ==
    LET at == {i \in 1..Len(s) : s[i] = sep}
    IN  IF at = {} THEN <<s>>
        ELSE LET i == CHOOSE k \in at : \A m \in at : k <= m
             IN  <<SubSeq(s, 1, i - 1)>> \o Split(SubSeq(s, i + 1, Len(s)), sep)

\* line.trim() !== ''
NotBlank(line) == \E i \in 1..Len(line) : line[i] \notin WhiteSpace

RECURSIVE SelectNotBlank(_)
SelectNotBlank(ls) ==
    IF ls = <<>> THEN <<>>
    ELSE (IF NotBlank(Head(ls)) THEN <<Head(ls)>> ELSE <<>>)
         \o SelectNotBlank(Tail(ls))

\* const rawLines = rawData.split('\n').filter(line => line.trim() !== '')
RawLines(text) == SelectNotBlank(Split(text, "\n"))

RECURSIVE Join(_, _)
\* The text whose split on sep is the sequence ss (Array.prototype.join).
Join(ss, sep) ==
    IF ss = <<>> THEN <<>>
    ELSE IF Len(ss) = 1 THEN ss[1]
    ELSE ss[1] \o <<sep>> \o Join(Tail(ss), sep)

---------------------------------------------------------------------------
(* Numbers: integer-valued doubles *)

\* A magnitude is a sequence of decimal digits, most significant first,
\* with no leading zero; zero is the empty sequence.
RECURSIVE StripZeros(_)
StripZeros(m) == IF m # <<>> /\ m[1] = 0 THEN StripZeros(Tail(m)) ELSE m

Front(s) == SubSeq(s, 1, Len(s) - 1)
Last(s) == s[Len(s)]

MagLess(a, b) ==
    \/ Len(a) < Len(b)
    \/ /\ Len(a) = Len(b)
       /\ \E i \in 1..Len(a) :
            /\ a[i] < b[i]
            /\ \A j \in 1..(i - 1) : a[j] = b[j]

RECURSIVE AddDigits(_, _, _)
AddDigits(a, b, carry) ==
    IF a = <<>> /\ b = <<>>
    THEN (IF carry = 0 THEN <<>> ELSE <<carry>>)
    ELSE LET da == IF a = <<>> THEN 0 ELSE Last(a)
             db == IF b = <<>> THEN 0 ELSE Last(b)
             s  == da + db + carry
         IN  Append(AddDigits(IF a = <<>> THEN a ELSE Front(a),
                              IF b = <<>> THEN b ELSE Front(b),
                              s \div 10),
                    s % 10)

MagAdd(a, b) == AddDigits(a, b, 0)

RECURSIVE SubDigits(_, _, _)
\* a - b - borrow for a >= b + borrow, digit by digit.
SubDigits(a, b, borrow) ==
    IF a = <<>> THEN <<>>
    ELSE LET db == IF b = <<>> THEN 0 ELSE Last(b)
             d  == Last(a) - db - borrow
         IN  Append(SubDigits(Front(a),
                              IF b = <<>> THEN b ELSE Front(b),
                              IF d < 0 THEN 1 ELSE 0),
                    IF d < 0 THEN d + 10 ELSE d)

MagSub(a, b) == StripZeros(SubDigits(a, b, 0))

RECURSIVE MagToInt(_)
\* The integer of a short magnitude.
MagToInt(m) == IF m = <<>> THEN 0 ELSE 10 * MagToInt(Front(m)) + Last(m)

RECURSIVE IntToMag(_)
IntToMag(n) == IF n = 0 THEN <<>> ELSE Append(IntToMag(n \div 10), n % 10)

\* 2^53 .. 2^57: from 2^53 on, neighbouring doubles are 2, 4, 8, 16 apart.
Pow2 == << <<9,0,0,7,1,9,9,2,5,4,7,4,0,9,9,2>>,
           <<1,8,0,1,4,3,9,8,5,0,9,4,8,1,9,8,4>>,
           <<3,6,0,2,8,7,9,7,0,1,8,9,6,3,9,6,8>>,
           <<7,2,0,5,7,5,9,4,0,3,7,9,2,7,9,3,6>>,
           <<1,4,4,1,1,5,1,8,8,0,7,5,8,5,5,8,7,2>> >>

\* Distance between neighbouring doubles at magnitude m (m < 2^57).
Spacing(m) == 2 ^ Cardinality({i \in 1..4 : ~MagLess(m, Pow2[i])})

\* m modulo d for d in {1, 2, 4, 8, 16, 32}: the last five decimal digits
\* decide it.
MagMod(m, d) ==
    MagToInt(IF Len(m) <= 5 THEN m ELSE SubSeq(m, Len(m) - 4, Len(m))) % d

\* Of lower and lower + s, the double nearer to lower + r; the one with the
\* even significand when both are as near.
PickNearest(lower, s, r) ==
    IF 2 * r < s \/ (2 * r = s /\ MagMod(lower, 2 * s) = 0)
    THEN lower
    ELSE MagAdd(lower, IntToMag(s))

RoundRemainder(m, s, r) ==
    IF r = 0 THEN m ELSE PickNearest(MagSub(m, IntToMag(r)), s, r)

RoundToSpacing(m, s) == RoundRemainder(m, s, MagMod(m, s))

\* The double nearest to the integer m, ties to the even significand.
RoundMag(m) == RoundToSpacing(m, Spacing(m))

NaN == [nan |-> TRUE, neg |-> FALSE, mag |-> <<>>]

\* The number of sign neg and magnitude m, m a double already; -0 is not
\* told from 0 (String prints both as "0").
Double(neg, m) == [nan |-> FALSE, neg |-> (neg /\ m # <<>>), mag |-> m]

\* The double of sign neg nearest to magnitude m.
MkNum(neg, m) == Double(neg, RoundMag(m))

\* The number of a small integer of the model.
NumOfInt(n) == Double(n < 0, IntToMag(IF n < 0 THEN -n ELSE n))

Zero == NumOfInt(0)

\* isNaN(x)
IsNaN(x) == x.nan

\* x + y
NumAdd(x, y) ==
    IF x.nan \/ y.nan THEN NaN
    ELSE MkNum(IF x.neg = y.neg \/ ~MagLess(x.mag, y.mag) THEN x.neg ELSE y.neg,
               IF x.neg = y.neg THEN MagAdd(x.mag, y.mag)
               ELSE IF MagLess(x.mag, y.mag) THEN MagSub(y.mag, x.mag)
               ELSE MagSub(x.mag, y.mag))

NumNeg(x) == IF x.nan THEN NaN ELSE Double(~x.neg, x.mag)

\* x - y
NumSub(x, y) == NumAdd(x, NumNeg(y))

\* x < y (false when either is NaN)
NumLess(x, y) ==
    /\ ~x.nan
    /\ ~y.nan
    /\ IF x.neg # y.neg THEN x.neg
       ELSE IF x.neg THEN MagLess(y.mag, x.mag)
       ELSE MagLess(x.mag, y.mag)

\* x || 0 for a number x: NaN and 0 are falsy.
OrZero(x) == IF x.nan THEN Zero ELSE x

\* String(x) for an integer-valued double below 10^21.
NumToStr(x) ==
    IF x.nan THEN <<"N", "a", "N">>
    ELSE IF x.mag = <<>> THEN <<"0">>
    ELSE (IF x.neg THEN <<"-">> ELSE <<>>)
         \o [i \in 1..Len(x.mag) |-> DigitChars[x.mag[i] + 1]]

RECURSIVE SkipWhiteSpace(_)
SkipWhiteSpace(s) ==
    IF s # <<>> /\ s[1] \in WhiteSpace THEN SkipWhiteSpace(Tail(s)) ELSE s

RECURSIVE DigitPrefix(_)
\* The digits of the longest prefix of s made of decimal digits.
DigitPrefix(s) ==
    IF s # <<>> /\ IsDigit(s[1])
    THEN <<DigitVal(s[1])>> \o DigitPrefix(Tail(s))
    ELSE <<>>

\* The number of sign neg and digits d; NaN when there is no digit.
DigitsNumber(neg, d) == IF d = <<>> THEN NaN ELSE MkNum(neg, StripZeros(d))

\* t with its sign, if it starts with one, taken off.
Unsigned(t) == IF t # <<>> /\ t[1] \in {"+", "-"} THEN Tail(t) ELSE t

SignedDigits(t) == DigitsNumber(t # <<>> /\ t[1] = "-", DigitPrefix(Unsigned(t)))

\* The number a numeric prefix denotes: leading white space, a sign, then
\* the longest run of digits.
NumericPrefix(s) == SignedDigits(SkipWhiteSpace(s))

\* parseInt(s, 10)
ParseInt(s) == NumericPrefix(s)

\* parseFloat(s), for the strings of the model: none continues its digits
\* with a fraction or an exponent, and none spells Infinity.
ParseFloat(s) == NumericPrefix(s)

---------------------------------------------------------------------------
(* Array.prototype.sort *)

\* The sign sort reads off a comparator's result: NaN counts as +0.
SignOrZero(x) ==
    IF x.nan \/ x.mag = <<>> THEN 0 ELSE IF x.neg THEN -1 ELSE 1

Range(s) == {s[i] : i \in 1..Len(s)}

\* Whether cmp is a consistent comparator for the values S (ECMA-262,
\* Array.prototype.sort): its "equal" is an equivalence and its "less" and
\* "greater" are transitive.
Consistent(S, cmp) ==
    /\ \A a \in S : cmp[a, a] = 0
    /\ \A a, b \in S : cmp[a, b] = 0 => cmp[b, a] = 0
    /\ \A a, b, c \in S :
         /\ (cmp[a, b] = 0 /\ cmp[b, c] = 0) => cmp[a, c] = 0
         /\ (cmp[a, b] < 0 /\ cmp[b, c] < 0) => cmp[a, c] < 0
         /\ (cmp[a, b] > 0 /\ cmp[b, c] > 0) => cmp[a, c] > 0

RECURSIVE InsertSorted(_, _, _)
\* x put into the sorted sequence s after every element not greater than it.
InsertSorted(s, x, cmp) ==
    IF s = <<>> THEN <<x>>
    ELSE IF cmp[x, Head(s)] < 0 THEN <<x>> \o s
    ELSE <<Head(s)>> \o InsertSorted(Tail(s), x, cmp)

RECURSIVE StableSort(_, _)
\* The stable sort of s by the comparator table cmp.
StableSort(s, cmp) ==
    IF s = <<>> THEN <<>>
    ELSE InsertSorted(StableSort(Front(s), cmp), Last(s), cmp)

Reorderings(s) ==
    {[i \in 1..Len(s) |-> s[p[i]]] :
        p \in {q \in [1..Len(s) -> 1..Len(s)] :
                  \A i, j \in 1..Len(s) : q[i] = q[j] => i = j}}

\* The arrays s.sort(cmp) may leave: the stable sort when cmp is a
\* consistent comparator for the values of s, and otherwise an
\* implementation-defined order of the same values.
SortWith(s, cmp) ==
    IF Consistent(Range(s), cmp) THEN {StableSort(s, cmp)} ELSE Reorderings(s)

---------------------------------------------------------------------------
(* getSortableHour *)

\* The wrap with the boundary one hour early: hour < 5 ? hour + 24 : hour
WrapBeforeFive(hour) ==
    IF NumLess(hour, NumOfInt(5)) THEN NumAdd(hour, NumOfInt(24)) ELSE hour

\* return hour < 6 ? hour + 24 : hour
WrapHour(hour) ==
    IF NumLess(hour, NumOfInt(6)) THEN NumAdd(hour, NumOfInt(24)) ELSE hour

getSortableHour(timeRangeString) ==
    IF timeRangeString = <<>> THEN Zero
    ELSE WrapHour(ParseInt(Split(timeRangeString, ":")[1]))

\* (a, b) => getSortableHour(a) - getSortableHour(b), as sort reads it
CompareTimeRanges(a, b) ==
    SignOrZero(NumSub(getSortableHour(a), getSortableHour(b)))

\* (a, b) => getSortableHour(a.timeRange) - getSortableHour(b.timeRange)
CompareTuples(a, b) == CompareTimeRanges(a.timeRange, b.timeRange)

\* The two comparators as tables over the values of the array s.
TimeRangeCmpTable(s) ==
    [a \in Range(s), b \in Range(s) |-> CompareTimeRanges(a, b)]

TupleCmpTable(s) ==
    [a \in Range(s), b \in Range(s) |-> CompareTuples(a, b)]

\* Array.from(allTimeRanges).sort(...) (line 166)
sortedTimeRangesOf(allTimeRanges) ==
    SortWith(allTimeRanges, TimeRangeCmpTable(allTimeRanges))

\* graphData.tuples.sort(...) (line 207)
sortedTuplesOf(ts) == SortWith(ts, TupleCmpTable(ts))

---------------------------------------------------------------------------
(* Objects *)

\* An object is the function from its own property names to their values;
\* {} is the function of empty domain.
EmptyObject == <<>>

\* obj[k] = v
Put(obj, k, v) == [x \in (DOMAIN obj) \cup {k} |-> IF x = k THEN v ELSE obj[x]]

Constructor == <<"c", "o", "n", "s", "t", "r", "u", "c", "t", "o", "r">>

\* The property names of the model's strings that every object literal
\* inherits from Object.prototype: obj.constructor is the Object function.
ObjectPrototypeKeys == {Constructor}

\* obj[k] is truthy: an own property (an object or an array here), or an
\* inherited one (a function).
Truthy(obj, k) == k \in DOMAIN obj \/ k \in ObjectPrototypeKeys

tuples == <<"t", "u", "p", "l", "e", "s">>

NewItem == [graphs |-> EmptyObject, standardTables |-> EmptyObject,
            pivotTables |-> EmptyObject]

\* const initializeItem = (itemName) => { if (!processed[itemName]) ... }
initializeItem(p, itemName) ==
    IF Truthy(p, itemName) THEN p ELSE Put(p, itemName, NewItem)

---------------------------------------------------------------------------
(* The forEach over rawLines (lines 81-119) *)

numero == <<"n", "u", "m", "e", "r", "o">>
tabla == <<"t", "a", "b", "l", "a">>

\* What one pass of the loop body works on: the two local accumulators,
\* the global Object function, and whether the body raised a TypeError.
LoopState(p, r, o, t) ==
    [processed |-> p, rawTableData |-> r, ObjectCtor |-> o, threw |-> t]

\* if (!tempData.tuples) tempData.tuples = []; tempData.tuples.push(t)
PushTuple(tempData, t) ==
    IF "tuples" \in DOMAIN tempData
    THEN [tempData EXCEPT !.tuples = Append(@, t)]
    ELSE [labels |-> tempData.labels, values |-> tempData.values,
          tuples |-> <<t>>]

\* graphs[dataName], created as { labels: [], values: [] } if absent, with
\* the tuple t pushed.
GraphWith(graphs, dataName, t) ==
    PushTuple(IF dataName \in DOMAIN graphs THEN graphs[dataName]
              ELSE [labels |-> <<>>, values |-> <<>>], t)

graphs == <<"g", "r", "a", "p", "h", "s">>

\* Lines 102-104 when tempData is the Object function: the tuple lands in
\* Object.tuples, an array ([array |-> ...] here) created if absent; if
\* Object.tuples is a table that an earlier line or invocation stored under
\* that name, it has no push and the call raises a TypeError.
PushToObject(st, t) ==
    IF tuples \in DOMAIN st.ObjectCtor
       /\ "array" \notin DOMAIN st.ObjectCtor[tuples]
    THEN [st EXCEPT !.threw = TRUE]
    ELSE [st EXCEPT !.ObjectCtor =
             Put(@, tuples,
                 [array |-> Append(IF tuples \in DOMAIN @ THEN @[tuples].array
                                   ELSE <<>>, t)])]

\* The graphs that lines 99-104 have added as properties to the table
\* object tableObject, and the table with one more tuple in them.
ExpandoOf(tableObject) ==
    IF "expando" \in DOMAIN tableObject THEN tableObject.expando ELSE EmptyObject

WithExpando(tableObject, dataName, t) ==
    [keyIndex |-> tableObject.keyIndex,
     rows |-> tableObject.rows,
     expando |-> Put(ExpandoOf(tableObject), dataName,
                     GraphWith(ExpandoOf(tableObject), dataName, t))]

\* Lines 99-104 when processed[itemName] is the Object function.  Its
\* graphs is undefined, and reading graphs[dataName] raises a TypeError,
\* unless an earlier line or invocation stored a table named "graphs" under
\* an inherited item name: then Object.graphs is that table object and the
\* graph becomes a property of it.  (The series of the model's texts are
\* not named keyIndex or rows.)
AddTupleToObject(st, dataName, t) ==
    IF graphs \notin DOMAIN st.ObjectCtor
       \/ "rows" \notin DOMAIN st.ObjectCtor[graphs]
    THEN [st EXCEPT !.threw = TRUE]
    ELSE IF dataName \in DOMAIN ExpandoOf(st.ObjectCtor[graphs])
            \/ ~Truthy(ExpandoOf(st.ObjectCtor[graphs]), dataName)
    THEN [st EXCEPT !.ObjectCtor[graphs] = WithExpando(@, dataName, t)]
    ELSE PushToObject(st, t)

\* The branch that creates the graph of an own item before it tests the
\* value.
CreateGraphFirst(st, itemName, dataName, t) ==
    IF itemName \notin DOMAIN st.processed THEN st
    ELSE IF IsNaN(t.value)
    THEN [st EXCEPT !.processed[itemName].graphs =
             Put(@, dataName, IF dataName \in DOMAIN @ THEN @[dataName]
                              ELSE [labels |-> <<>>, values |-> <<>>])]
    ELSE [st EXCEPT !.processed[itemName].graphs =
             Put(@, dataName, GraphWith(@, dataName, t))]

\* Lines 98-105 for the tuple t = { timeRange, value }.  processed[itemName]
\* is the item's own entry or, for an inherited name, the Object function.
\* graphs[dataName] is the graph's own entry or, for an inherited name,
\* the Object function again.
AddTuple(st, itemName, dataName, t) ==
    IF IsNaN(t.value) THEN st
    ELSE IF itemName \notin DOMAIN st.processed
    THEN AddTupleToObject(st, dataName, t)
    ELSE IF dataName \in DOMAIN st.processed[itemName].graphs
            \/ ~Truthy(st.processed[itemName].graphs, dataName)
    THEN [st EXCEPT !.processed[itemName].graphs =
             Put(@, dataName, GraphWith(@, dataName, t))]
    ELSE PushToObject(st, t)

\* The branch dataType === 'numero' && parts.length === 5 (lines 95-105).
numeroBranch(st, timeRange, itemName, dataName, valueStr) ==
    AddTuple(st, itemName, dataName,
             [timeRange |-> timeRange, value |-> ParseFloat(valueStr)])

\* The table that takes the key index of every record it receives.
LatestKeyIndex(tables, tableName, keyIndex, row) ==
    IF tableName \in DOMAIN tables
    THEN [tables[tableName] EXCEPT !.keyIndex = keyIndex, !.rows = Append(@, row)]
    ELSE [keyIndex |-> keyIndex, rows |-> <<row>>]

\* tables[tableName], created as { keyIndex, rows: [] } if absent, with the
\* row pushed.
TableWith(tables, tableName, keyIndex, row) ==
    IF tableName \in DOMAIN tables
    THEN [tables[tableName] EXCEPT !.rows = Append(@, row)]
    ELSE [keyIndex |-> keyIndex, rows |-> <<row>>]

\* Lines 113-117 on tables = rawTableData[itemName]: a table name that is
\* inherited reads as a function, and one that names the array
\* Object.tuples reads as that array; rows of either is undefined, and
\* rows.push raises a TypeError.
StoreRow(tables, tableName, keyIndex, row) ==
    IF \/ tableName \notin DOMAIN tables /\ Truthy(tables, tableName)
       \/ tableName \in DOMAIN tables /\ "rows" \notin DOMAIN tables[tableName]
    THEN [threw |-> TRUE, tables |-> tables]
    ELSE [threw |-> FALSE,
          tables |-> Put(tables, tableName,
                         TableWith(tables, tableName, keyIndex, row))]

\* Lines 112-117.  rawTableData[itemName] is the item's own map, created
\* if absent, or, for an inherited name, the Object function, so that the
\* table is stored as a property of Object.
AddRow(st, itemName, tableName, keyIndex, row) ==
    IF itemName \notin DOMAIN st.rawTableData /\ Truthy(st.rawTableData, itemName)
    THEN [st EXCEPT
            !.threw = StoreRow(st.ObjectCtor, tableName, keyIndex, row).threw,
            !.ObjectCtor = StoreRow(@, tableName, keyIndex, row).tables]
    ELSE [st EXCEPT
            !.threw = StoreRow(IF itemName \in DOMAIN st.rawTableData
                               THEN st.rawTableData[itemName] ELSE EmptyObject,
                               tableName, keyIndex, row).threw,
            !.rawTableData =
                Put(@, itemName,
                    StoreRow(IF itemName \in DOMAIN @ THEN @[itemName]
                             ELSE EmptyObject,
                             tableName, keyIndex, row).tables)]

\* The branch without the test of the key index.
AcceptAnyIndex(st, itemName, tableName, keyIndex, row) ==
    AddRow(st, itemName, tableName, keyIndex, row)

\* if (isNaN(keyIndex) || keyIndex < 1) return; and lines 112-117
AcceptRow(st, itemName, tableName, keyIndex, row) ==
    IF IsNaN(keyIndex) \/ NumLess(keyIndex, NumOfInt(1)) THEN st
    ELSE AddRow(st, itemName, tableName, keyIndex, row)

\* The branch dataType === 'tabla' && parts.length >= 6 (lines 106-118).
tablaBranch(st, timeRange, itemName, tableName, keyIndexStr, columns) ==
    AcceptRow(st, itemName, tableName, ParseInt(keyIndexStr),
              [timeRange |-> timeRange, columns |-> columns])

\* Lines 95-118: the two branches on dataType.
Branches(st, parts) ==
    IF parts[3] = numero /\ Len(parts) = 5
    THEN numeroBranch(st, parts[1], parts[2], parts[4], parts[5])
    ELSE IF parts[3] = tabla /\ Len(parts) >= 6
    THEN tablaBranch(st, parts[1], parts[2], parts[4], parts[5],
                     SubSeq(parts, 6, Len(parts)))
    ELSE st

\* Lines 83-118 for parts = line.split(';').
PartsBody(st, parts) ==
    IF Len(parts) < 5 THEN st
    ELSE Branches([st EXCEPT !.processed = initializeItem(@, parts[2])], parts)

\* The body of rawLines.forEach(line => ...) (lines 81-119).
LineBody(st, line) == PartsBody(st, Split(line, ";"))

---------------------------------------------------------------------------
(* Pivoting (lines 121-200) *)

\* columns[i] for a 0-based index i: undefined outside the array.
ColumnAt(columns, i) ==
    IF i + 1 \in 1..Len(columns) THEN columns[i + 1] ELSE Undefined

RECURSIVE FilterOut(_, _, _)
\* columns.filter((_, idx) => idx !== a && idx !== b), 0-based a and b.
FilterOut(columns, a, b) ==
    IF columns = <<>> THEN <<>>
    ELSE IF Len(columns) - 1 # a /\ Len(columns) - 1 # b
    THEN Append(FilterOut(Front(columns), a, b), Last(columns))
    ELSE FilterOut(Front(columns), a, b)

\* const groupingColumnIndex = keyIndex - 1
groupingColumnIndexOf(keyIndex) == NumSub(keyIndex, NumOfInt(1))

\* const valueColumnIndex = rows[0].columns.length - 1
valueColumnIndexOf(rows) == Len(rows[1].columns) - 1

\* groupingColumnIndex >= valueColumnIndex || groupingColumnIndex < 0
GuardFails(groupingColumnIndex, valueColumnIndex) ==
    \/ (~groupingColumnIndex.nan /\ ~NumLess(groupingColumnIndex, valueColumnIndex))
    \/ NumLess(groupingColumnIndex, Zero)

\* if (rows.length === 0) continue; ... if (...) continue (lines 127-133)
PivotSkipped(tableData) ==
    \/ Len(tableData.rows) = 0
    \/ GuardFails(groupingColumnIndexOf(tableData.keyIndex),
                  NumOfInt(valueColumnIndexOf(tableData.rows)))

\* entry.timeData.get(timeRange) || 0
TimeDataOrZero(entry, timeRange) ==
    IF timeRange \in DOMAIN entry.timeData
    THEN OrZero(entry.timeData[timeRange])
    ELSE Zero

\* The update that stores the value in the time range's cell instead of
\* adding it to the cell.
OverwriteEntry(entry, timeRange, value) ==
    [entry EXCEPT !.total = NumAdd(@, value),
                  !.timeData = Put(@, timeRange, value)]

\* entry.total += value; entry.timeData.set(row.timeRange, ... + value)
AddToEntry(entry, timeRange, value) ==
    [entry EXCEPT !.total = NumAdd(@, value),
                  !.timeData = Put(@, timeRange,
                                   NumAdd(TimeDataOrZero(entry, timeRange), value))]

\* The insertion that puts a new key before the keys already present.
PrependEntry(aggregatedData, groupingValue, otherKeyColumns) ==
    IF \E i \in 1..Len(aggregatedData) : aggregatedData[i].key = groupingValue
    THEN aggregatedData
    ELSE <<[key |-> groupingValue,
            otherKeyColumns |-> otherKeyColumns,
            total |-> Zero,
            timeData |-> EmptyObject]>> \o aggregatedData

\* if (!aggregatedData.has(groupingValue)) aggregatedData.set(...)
EnsureEntry(aggregatedData, groupingValue, otherKeyColumns) ==
    IF \E i \in 1..Len(aggregatedData) : aggregatedData[i].key = groupingValue
    THEN aggregatedData
    ELSE Append(aggregatedData, [key |-> groupingValue,
                                 otherKeyColumns |-> otherKeyColumns,
                                 total |-> Zero,
                                 timeData |-> EmptyObject])

\* const entry = aggregatedData.get(groupingValue)!; and its two updates
UpdateEntry(aggregatedData, groupingValue, timeRange, value) ==
    [n \in 1..Len(aggregatedData) |->
        IF aggregatedData[n].key = groupingValue
        THEN AddToEntry(aggregatedData[n], timeRange, value)
        ELSE aggregatedData[n]]

\* allTimeRanges.add(row.timeRange)
AddTimeRange(allTimeRanges, timeRange) ==
    IF \E i \in 1..Len(allTimeRanges) : allTimeRanges[i] = timeRange
    THEN allTimeRanges
    ELSE Append(allTimeRanges, timeRange)

\* Lines 145-162 for the row's key, value and other columns; aggregatedData
\* (a Map) and allTimeRanges (a Set) keep their keys in order of insertion.
Aggregate(acc, timeRange, groupingValue, value, otherKeyColumns) ==
    [aggregatedData |->
         UpdateEntry(EnsureEntry(acc.aggregatedData, groupingValue,
                                 otherKeyColumns),
                     groupingValue, timeRange, value),
     allTimeRanges |-> AddTimeRange(acc.allTimeRanges, timeRange)]

\* const valueStr = row.columns[valueColumnIndex];
\* const value = parseFloat(valueStr) || 0
rowValue(row, valueColumnIndex) ==
    OrZero(ParseFloat(ColumnAt(row.columns, valueColumnIndex)))

\* The body of rows.forEach(row => ...) (lines 144-163).
AggregateRow(acc, row, groupingColumnIndex, valueColumnIndex) ==
    Aggregate(acc, row.timeRange,
              ColumnAt(row.columns, groupingColumnIndex),
              rowValue(row, valueColumnIndex),
              FilterOut(row.columns, groupingColumnIndex, valueColumnIndex))

RECURSIVE AggregateRows(_, _, _)
AggregateRows(rows, groupingColumnIndex, valueColumnIndex) ==
    IF rows = <<>>
    THEN [aggregatedData |-> <<>>, allTimeRanges |-> <<>>]
    ELSE AggregateRow(AggregateRows(Front(rows), groupingColumnIndex,
                                    valueColumnIndex),
                      Last(rows), groupingColumnIndex, valueColumnIndex)

Column == <<"C", "o", "l", "u", "m", "n", " ">>
Total == <<"T", "o", "t", "a", "l">>

\* Array.from({ length: numTextColumns }, (_, i) => `Column ${i + 1}`)
textColumnHeaders(numTextColumns) ==
    [i \in 1..numTextColumns |-> Column \o NumToStr(NumOfInt(i))]

\* const finalHeaders = [...textColumnHeaders, 'Total', ...sortedTimeRanges]
finalHeaders(numTextColumns, sortedTimeRanges) ==
    textColumnHeaders(numTextColumns) \o <<Total>> \o sortedTimeRanges

\* data.otherKeyColumns[otherKeyColumnIndex++] || ''
OtherOrEmpty(otherKeyColumns, otherKeyColumnIndex) ==
    IF ColumnAt(otherKeyColumns, otherKeyColumnIndex) = Undefined THEN <<>>
    ELSE otherKeyColumns[otherKeyColumnIndex + 1]

\* The text cells sized by the entry's own columns rather than by the
\* table's numTextColumns.
ownTextColumns(groupingValue, data, numTextColumns, groupingColumnIndex) ==
    [n \in 1..(Len(data.otherKeyColumns) + 1) |->
        IF n - 1 = groupingColumnIndex THEN groupingValue
        ELSE OtherOrEmpty(data.otherKeyColumns,
                          IF n - 1 < groupingColumnIndex THEN n - 1 ELSE n - 2)]

\* The loop of lines 175-183: the key at its column, the other cells from
\* otherKeyColumns in order, '' for a missing or empty one.
textColumns(groupingValue, data, numTextColumns, groupingColumnIndex) ==
    [n \in 1..numTextColumns |->
        IF n - 1 = groupingColumnIndex THEN groupingValue
        ELSE OtherOrEmpty(data.otherKeyColumns,
                          IF n - 1 < groupingColumnIndex THEN n - 1 ELSE n - 2)]

\* sortedTimeRanges.map(tr => data.timeData.get(tr) || 0)
timeCells(data, sortedTimeRanges) ==
    [n \in 1..Len(sortedTimeRanges) |-> TimeDataOrZero(data, sortedTimeRanges[n])]

\* [...textColumns, data.total, ...cells].map(String)
newRow(text, total, cells) ==
    [n \in 1..Len(text) |-> ToStr(text[n])]
    \o <<NumToStr(total)>>
    \o [n \in 1..Len(cells) |-> NumToStr(cells[n])]

\* The row pushed for one entry of aggregatedData (lines 174-191).
pivotedRow(data, sortedTimeRanges, numTextColumns, groupingColumnIndex) ==
    newRow(textColumns(data.key, data, numTextColumns, groupingColumnIndex),
           data.total,
           timeCells(data, sortedTimeRanges))

\* { headers: finalHeaders, rows: pivotedRows } (lines 172-198)
PivotTable(aggregatedData, sortedTimeRanges, numTextColumns, groupingColumnIndex) ==
    [headers |-> finalHeaders(numTextColumns, sortedTimeRanges),
     rows |-> [n \in 1..Len(aggregatedData) |->
                  pivotedRow(aggregatedData[n], sortedTimeRanges,
                             numTextColumns, groupingColumnIndex)]]

\* Lines 165-198 on the aggregate: one table per order sort may leave the
\* time ranges in.
PivotOfAggregate(acc, groupingColumnIndex, valueColumnIndex) ==
    {PivotTable(acc.aggregatedData, sortedTimeRanges, valueColumnIndex,
                groupingColumnIndex) :
        sortedTimeRanges \in sortedTimeRangesOf(acc.allTimeRanges)}

\* Lines 135-198 for the two column indexes.
PivotOfRows(rows, groupingColumnIndex, valueColumnIndex) ==
    PivotOfAggregate(AggregateRows(rows, groupingColumnIndex, valueColumnIndex),
                     groupingColumnIndex, valueColumnIndex)

\* The pivot tables one (item, table) may get: none when the guard skips it.
PivotResults(tableData) ==
    IF PivotSkipped(tableData) THEN {}
    ELSE PivotOfRows(tableData.rows,
                     MagToInt(groupingColumnIndexOf(tableData.keyIndex).mag),
                     valueColumnIndexOf(tableData.rows))

\* The (item, table) pairs the loops of lines 122-123 visit.
TablePairs(r) ==
    UNION {{<<itemName, tableName>> : tableName \in DOMAIN r[itemName]} :
              itemName \in DOMAIN r}

\* For each pair the loops visit, the pivot tables it may get.
AllPivotResults(r) ==
    [pair \in TablePairs(r) |-> PivotResults(r[pair[1]][pair[2]])]

\* One result for every key of results that has one.
Choices(results) ==
    {chosen \in [{k \in DOMAIN results : results[k] # {}} ->
                    UNION {results[k] : k \in DOMAIN results}] :
        \A k \in DOMAIN chosen : chosen[k] \in results[k]}

\* processed[itemName].pivotTables[tableName] = { headers, rows }
StorePivots(p, chosen) ==
    [itemName \in DOMAIN p |->
        [p[itemName] EXCEPT !.pivotTables =
            [tableName \in {pair[2] : pair \in
                              {q \in DOMAIN chosen : q[1] = itemName}}
                |-> chosen[<<itemName, tableName>>]]]]

---------------------------------------------------------------------------
(* Post-processing of the graphs (lines 202-213) *)

\* The graphs of p that carry tuples (if (graphData.tuples)).
GraphPairs(p) ==
    {pair \in UNION {{<<item, graphName>> : graphName \in DOMAIN p[item].graphs} :
                        item \in DOMAIN p} :
        "tuples" \in DOMAIN p[pair[1]].graphs[pair[2]]}

\* For each such graph, the orders sort may leave its tuples in.
AllGraphSorts(p) ==
    [pair \in GraphPairs(p) |->
        sortedTuplesOf(p[pair[1]].graphs[pair[2]].tuples)]

\* labels and values of the sorted tuples; delete graphData.tuples
GraphOf(sortedTuples) ==
    [labels |-> [n \in 1..Len(sortedTuples) |-> sortedTuples[n].timeRange],
     values |-> [n \in 1..Len(sortedTuples) |-> sortedTuples[n].value]]

StoreGraphs(p, chosen) ==
    [item \in DOMAIN p |->
        [p[item] EXCEPT !.graphs =
            [graphName \in DOMAIN @ |->
                IF <<item, graphName>> \in DOMAIN chosen
                THEN GraphOf(chosen[<<item, graphName>>])
                ELSE @[graphName]]]]

---------------------------------------------------------------------------
(* The invocation *)

\* pollingRef.current = null (useRef<number | null>(null), line 373); timer
\* ids are positive.
NoTimer == 0

\* processedData = null (useState<ProcessedResults | null>(null), line 360);
\* a Report is modelled by its keys, [keys |-> ...].
Null == [null |-> TRUE]

\* activeTab = null (useState<string | null>(null), line 371); tab names
\* are strings.
NoTab == <<"null">>

\* The App as mounted: useState('idle'), useState(null), useState([]),
\* useState('checking') (lines 358-371), no timer, no request.
AppMounted ==
    /\ status = "idle"
    /\ processedData = Null
    /\ availableTabs = <<>>
    /\ activeTab = NoTab
    /\ connectionStatus = "checking"
    /\ pollingRef = NoTimer
    /\ timers = {}
    /\ timerCount = 0
    /\ posts = 0
    /\ polls = EmptyBag
    /\ reads = 0

\* The first invocation, on one of Texts, in a fresh realm.
InitOn(Texts) ==
    /\ rawData \in Texts
    /\ rawLines = RawLines(rawData)
    /\ lineIdx = 0
    /\ processed = EmptyObject
    /\ rawTableData = EmptyObject
    /\ ObjectCtor = EmptyObject
    /\ pc = "lines"
    /\ calls = 1
    /\ history = <<>>
    /\ AppMounted

\* The state after a pass of the loop body that left st.
AfterLine(st) ==
    /\ processed' = st.processed
    /\ rawTableData' = st.rawTableData
    /\ ObjectCtor' = st.ObjectCtor
    /\ pc' = IF st.threw THEN "threw" ELSE "lines"

\* One pass of rawLines.forEach (lines 81-119); a TypeError ends the call.
ProcessLine ==
    /\ pc = "lines"
    /\ lineIdx < Len(rawLines)
    /\ AfterLine(LineBody(LoopState(processed, rawTableData, ObjectCtor, FALSE),
                          rawLines[lineIdx + 1]))
    /\ lineIdx' = lineIdx + 1
    /\ UNCHANGED <<rawData, rawLines, callVars, appVars>>

\* The loops of lines 122-200 over rawTableData.
PivotTables ==
    /\ pc = "lines"
    /\ lineIdx = Len(rawLines)
    /\ \E chosen \in Choices(AllPivotResults(rawTableData)) :
          processed' = StorePivots(processed, chosen)
    /\ pc' = "sort"
    /\ UNCHANGED <<rawData, rawLines, lineIdx, rawTableData, ObjectCtor>>
    /\ UNCHANGED <<callVars, appVars>>

\* The loops of lines 203-213 over the graphs, and return processed.
SortGraphs ==
    /\ pc = "sort"
    /\ \E chosen \in Choices(AllGraphSorts(processed)) :
          processed' = StoreGraphs(processed, chosen)
    /\ pc' = "done"
    /\ UNCHANGED <<rawData, rawLines, lineIdx, rawTableData, ObjectCtor>>
    /\ UNCHANGED <<callVars, appVars>>

Next == ProcessLine \/ PivotTables \/ SortGraphs

---------------------------------------------------------------------------
(* Input texts *)

\* The sequences of at most n elements of S.
SeqsUpTo(S, n) == UNION {[1..k -> S] : k \in 0..n}

\* The texts of at most MaxLines lines drawn from Lines.
TextsOf(Lines) == {Join(ls, "\n") : ls \in SeqsUpTo(Lines, MaxLines)}

Line(fields) == Join(fields, ";")

h08 == <<"0", "8", ":", "0", "0">>
h09 == <<"0", "9", ":", "0", "0">>
h07 == <<"0", "7", ":", "0", "0">>
h06 == <<"0", "6", ":", "0", "0">>
h23 == <<"2", "3", ":", "0", "0">>
h05 == <<"0", "5", ":", "0", "0">>
hxx == <<"x", "x">>
TwoTo53 == <<"9","0","0","7","1","9","9","2","5","4","7","4","0","9","9","2">>

\* Numeric records of item A, series s, each with a value of its own: the
\* hours on both sides of 6, a repeated label, the empty label and a label
\* with no hour; then an unparsable value, a second series and a second item
\* (at hour 6).
GraphLines ==
    { Line(<<h08, <<"A">>, numero, <<"s">>, <<"1">>>>),
      Line(<<h07, <<"A">>, numero, <<"s">>, <<"2">>>>),
      Line(<<h23, <<"A">>, numero, <<"s">>, <<"3">>>>),
      Line(<<h05, <<"A">>, numero, <<"s">>, <<"4">>>>),
      Line(<<h08, <<"A">>, numero, <<"s">>, <<"5">>>>),
      Line(<<<<>>, <<"A">>, numero, <<"s">>, <<"6">>>>),
      Line(<<hxx, <<"A">>, numero, <<"s">>, <<"7">>>>),
      Line(<<h08, <<"A">>, numero, <<"s">>, <<"x">>>>),
      Line(<<h07, <<"A">>, numero, <<"u">>, <<"8">>>>),
      Line(<<h06, <<"B">>, numero, <<"s">>, <<"9">>>>) }

\* Table records of item A, table T: the spec's pivot example, a value of
\* 2^53, rows of one, three and four columns, a key index past the value
\* column, an unparsable value, a label with no hour, and a second table.
TableLines ==
    { Line(<<h08, <<"A">>, tabla, <<"T">>, <<"1">>, <<"a">>, <<"5">>>>),
      Line(<<h09, <<"A">>, tabla, <<"T">>, <<"1">>, <<"a">>, <<"1">>>>),
      Line(<<h08, <<"A">>, tabla, <<"T">>, <<"1">>, <<"b">>, <<"7">>>>),
      Line(<<h05, <<"A">>, tabla, <<"T">>, <<"1">>, <<"a">>, TwoTo53>>),
      Line(<<h08, <<"A">>, tabla, <<"T">>, <<"2">>, <<"p">>, <<"a">>, <<"2">>>>),
      Line(<<h07, <<"A">>, tabla, <<"T">>, <<"1">>, <<"b">>>>),
      Line(<<h08, <<"A">>, tabla, <<"T">>, <<"5">>, <<"a">>, <<"b">>, <<"c">>, <<"5">>>>),
      Line(<<h09, <<"A">>, tabla, <<"T">>, <<"1">>, <<"b">>, <<"x">>>>),
      Line(<<hxx, <<"A">>, tabla, <<"T">>, <<"1">>, <<"a">>, <<"3">>>>),
      Line(<<h08, <<"A">>, tabla, <<"U">>, <<"2">>, <<"q">>, <<"b">>, <<"4">>>>) }

\* Lines the decoder discards (too few fields, an unknown discriminator, a
\* wrong field count, an unparsable value, an invalid key index, a blank
\* line), one accepted record of each kind, and the inherited property
\* name "constructor" as item, series and table name.
DecoderLines ==
    { Line(<<<<"a">>, <<"b">>>>),
      Line(<<h08, <<"A">>, <<"f", "o", "o">>, <<"s">>, <<"1">>>>),
      Line(<<h08, <<"A">>, numero, <<"s">>, <<"1">>, <<"9">>>>),
      Line(<<h09, <<"B">>, tabla, <<"T">>, <<"1">>>>),
      Line(<<h08, <<"A">>, numero, <<"s">>, <<"N", "a", "N", "t", "e", "x", "t">>>>),
      Line(<<h09, <<"B">>, tabla, <<"T">>, <<"0">>, <<"b">>, <<"7">>>>),
      Line(<<h09, <<"B">>, tabla, <<"T">>, <<"x">>, <<"b">>, <<"7">>>>),
      <<" ">>,
      Line(<<h08, <<"A">>, numero, <<"s">>, <<"1">>>>),
      Line(<<h08, <<"B">>, tabla, <<"T">>, <<"1">>, <<"a">>, <<"5">>>>),
      Line(<<h08, Constructor, numero, <<"s">>, <<"1">>>>),
      Line(<<h08, Constructor, tabla, <<"T">>, <<"1">>, <<"a">>, <<"5">>>>),
      Line(<<h08, <<"B">>, numero, Constructor, <<"1">>>>),
      Line(<<h08, <<"B">>, tabla, Constructor, <<"1">>, <<"a">>, <<"5">>>>) }

\* Lines whose names reach the Object function: a numeric record of item
\* "constructor", one of series "constructor", table records of item
\* "constructor" for tables named "tuples" and "graphs", and two ordinary
\* records.
CallLines ==
    { Line(<<h08, Constructor, numero, <<"s">>, <<"1">>>>),
      Line(<<h08, <<"B">>, numero, Constructor, <<"1">>>>),
      Line(<<h08, Constructor, tabla, tuples, <<"1">>, <<"a">>, <<"5">>>>),
      Line(<<h08, Constructor, tabla, graphs, <<"1">>, <<"a">>, <<"5">>>>),
      Line(<<h08, <<"A">>, numero, <<"s">>, <<"1">>>>),
      Line(<<h08, <<"B">>, tabla, <<"T">>, <<"1">>, <<"a">>, <<"5">>>>) }

\* The texts of the repeated invocations: the empty text and each line.
CallTexts == {<<>>} \cup CallLines

\* What the invocation that ended gave its caller: a TypeError or the
\* Report.
Outcome ==
    IF pc = "threw" THEN [threw |-> TRUE, report |-> EmptyObject]
    ELSE [threw |-> FALSE, report |-> processed]

\* The caller invokes parseAndOrganizeData again (line 439 runs for every
\* completed response): fresh locals (lines 62-79), the same global Object.
Call ==
    /\ pc \in {"done", "threw"}
    /\ calls < MaxCalls
    /\ history' = Append(history, [text |-> rawData, outcome |-> Outcome])
    /\ calls' = calls + 1
    /\ \E text \in CallTexts :
          /\ rawData' = text
          /\ rawLines' = RawLines(text)
    /\ lineIdx' = 0
    /\ processed' = EmptyObject
    /\ rawTableData' = EmptyObject
    /\ pc' = "lines"
    /\ UNCHANGED <<ObjectCtor, appVars>>

NextCalls == ProcessLine \/ PivotTables \/ SortGraphs \/ Call

Init == InitOn(TextsOf(DecoderLines))
InitCalls == InitOn(CallTexts)
InitGraph == InitOn(TextsOf(GraphLines))
InitTable == InitOn(TextsOf(TableLines))

\* One invocation on a text of decoder lines, of numeric records, of table
\* records.
Spec == Init /\ [][Next]_vars
SpecGraph == InitGraph /\ [][Next]_vars
SpecTable == InitTable /\ [][Next]_vars

\* Up to MaxCalls invocations, one after the other, in one realm.
SpecCalls == InitCalls /\ [][NextCalls]_vars

---------------------------------------------------------------------------
(* The App: monitoring runs, polling and report files *)

MaxPosts == 2
MaxPolls == 2
MaxReads == 1
MaxTimers == 3

\* The Reports a poll answer or a report file may carry, by their keys: no
\* item, one item, two items, and an item whose name is the empty string.
Reports ==
    { [keys |-> <<>>],
      [keys |-> << <<"A">> >>],
      [keys |-> << <<"A">>, <<"B">> >>],
      [keys |-> << <<>>, <<"B">> >>] }

\* stopPolling (lines 415-420): the timer held in pollingRef, if any, is
\* cleared, and pollingRef is null.
stopPolling ==
    /\ timers' = timers \ {pollingRef}
    /\ pollingRef' = NoTimer

\* Object.keys(processedData) (line 383)
newTabs(data) == data.keys

\* current && newTabs.includes(current) ? current : newTabs[0] (line 387)
KeptOrFirst(current, tabs) ==
    IF current # NoTab /\ current # <<>> /\ current \in Range(tabs)
    THEN current
    ELSE tabs[1]

\* The effect that resets nothing when status is not 'completed'.
EffectWithoutReset(newStatus, newData) ==
    /\ processedData' = newData
    /\ availableTabs' = IF newStatus = "completed" /\ newData # Null
                        THEN newTabs(newData)
                        ELSE availableTabs
    /\ activeTab' = IF newStatus = "completed" /\ newData # Null
                    THEN IF newTabs(newData) # <<>>
                         THEN KeptOrFirst(activeTab, newTabs(newData))
                         ELSE NoTab
                    ELSE activeTab

\* The effect on [status, processedData] (lines 381-396), run to its fixed
\* point: with a Report under 'completed' the tabs are its keys and the
\* active tab is kept if it is one of them; under any other status
\* processedData, availableTabs and activeTab are cleared; under
\* 'completed' without a Report nothing is touched.
Effect(newStatus, newData) ==
    /\ processedData' = IF newStatus = "completed" THEN newData ELSE Null
    /\ availableTabs' = IF newStatus # "completed" THEN <<>>
                        ELSE IF newData # Null THEN newTabs(newData)
                        ELSE availableTabs
    /\ activeTab' = IF newStatus # "completed" THEN NoTab
                    ELSE IF newData = Null THEN activeTab
                    ELSE IF newTabs(newData) # <<>>
                    THEN KeptOrFirst(activeTab, newTabs(newData))
                    ELSE NoTab

\* The state the render and the effect settle in after a handler has set
\* status and processedData.
Settle(newStatus, newData) ==
    /\ status' = newStatus
    /\ Effect(newStatus, newData)

\* getButtonState().disabled (lines 659-664), and the disabled attribute of
\* the Load button (line 845).
getButtonState ==
    connectionStatus # "connected" \/ status \in {"pending", "polling"}

LoadDisabled == status \in {"pending", "polling"}

\* The user edits the API URL: the effect of lines 467-472 sets
\* connectionStatus to 'checking'.
ApiUrlChanged ==
    /\ connectionStatus # "checking"
    /\ connectionStatus' = "checking"
    /\ UNCHANGED <<status, processedData, availableTabs, activeTab>>
    /\ UNCHANGED <<pollingRef, timers, timerCount, posts, polls, reads>>
    /\ UNCHANGED <<parserVars, callVars>>

\* checkConnection (lines 458-465) ends.
checkConnection ==
    /\ connectionStatus = "checking"
    /\ connectionStatus' \in {"connected", "disconnected"}
    /\ UNCHANGED <<status, processedData, availableTabs, activeTab>>
    /\ UNCHANGED <<pollingRef, timers, timerCount, posts, polls, reads>>
    /\ UNCHANGED <<parserVars, callVars>>

\* A tab button is clicked (lines 671-673, 683-687): the tabs are shown
\* under 'completed' with a Report that has tabs.
SelectTab ==
    /\ status = "completed"
    /\ processedData # Null
    /\ availableTabs # <<>>
    /\ activeTab' \in Range(availableTabs)
    /\ UNCHANGED <<status, processedData, availableTabs, connectionStatus>>
    /\ UNCHANGED <<pollingRef, timers, timerCount, posts, polls, reads>>
    /\ UNCHANGED <<parserVars, callVars>>

\* handleStartMonitoring up to its await (lines 474-495): the form is
\* submitted through its enabled button; polling is stopped, the state is
\* reset and the POST is sent.
handleStartMonitoring ==
    /\ ~getButtonState
    /\ posts < MaxPosts
    /\ stopPolling
    /\ Settle("pending", Null)
    /\ posts' = posts + 1
    /\ UNCHANGED <<connectionStatus, timerCount, polls, reads>>
    /\ UNCHANGED <<parserVars, callVars>>

\* handleStartMonitoring after its await (lines 497-503): the server
\* answers 202 'monitoring_started', and the interval timer is set and
\* stored in pollingRef.
MonitoringStarted ==
    /\ posts > 0
    /\ timerCount < MaxTimers
    /\ posts' = posts - 1
    /\ timerCount' = timerCount + 1
    /\ timers' = timers \cup {timerCount + 1}
    /\ pollingRef' = timerCount + 1
    /\ Settle("polling", processedData)
    /\ UNCHANGED <<connectionStatus, polls, reads>>
    /\ UNCHANGED <<parserVars, callVars>>

\* handleStartMonitoring after its await (lines 497, 504-510): any other
\* answer, or no answer.
MonitoringRefused ==
    /\ posts > 0
    /\ posts' = posts - 1
    /\ Settle("error", processedData)
    /\ UNCHANGED <<connectionStatus, pollingRef, timers, timerCount, polls, reads>>
    /\ UNCHANGED <<parserVars, callVars>>

\* The requests awaiting an answer, with one more sent by timer t and with
\* one of timer t answered.
Sent(t) == polls (+) SetToBag({t})
Answered(t) == polls (-) SetToBag({t})

\* An interval timer fires and fetchStatus sends its request (line 424).
PollTick ==
    /\ BagCardinality(polls) < MaxPolls
    /\ \E t \in timers : polls' = Sent(t)
    /\ UNCHANGED <<status, processedData, availableTabs, activeTab, connectionStatus>>
    /\ UNCHANGED <<pollingRef, timers, timerCount, posts, reads>>
    /\ UNCHANGED <<parserVars, callVars>>

\* fetchStatus after its awaits (lines 425-449) when the answer has a
\* status other than 'completed' and 'error': only statusMessage changes.
PollRunning ==
    /\ \E t \in BagToSet(polls) : polls' = Answered(t)
    /\ UNCHANGED <<status, processedData, availableTabs, activeTab, connectionStatus>>
    /\ UNCHANGED <<pollingRef, timers, timerCount, posts, reads>>
    /\ UNCHANGED <<parserVars, callVars>>

\* fetchStatus when the answer has status 'completed' (lines 433-444): the
\* Report of parseAndOrganizeData, or null when resumen is not a string.
PollCompleted ==
    /\ \E t \in BagToSet(polls) : polls' = Answered(t)
    /\ \E parsedResults \in Reports \cup {Null} : Settle("completed", parsedResults)
    /\ stopPolling
    /\ UNCHANGED <<connectionStatus, timerCount, posts, reads>>
    /\ UNCHANGED <<parserVars, callVars>>

\* fetchStatus when the answer has status 'error' (lines 445-448), or when
\* the request, the parse of the body or parseAndOrganizeData raises
\* (lines 450-455).
PollFailed ==
    /\ \E t \in BagToSet(polls) : polls' = Answered(t)
    /\ Settle("error", processedData)
    /\ stopPolling
    /\ UNCHANGED <<connectionStatus, timerCount, posts, reads>>
    /\ UNCHANGED <<parserVars, callVars>>

\* handleJsonFileChange (lines 622-625, 656): a file is chosen through the
\* enabled Load button and the read starts.
handleJsonFileChange ==
    /\ ~LoadDisabled
    /\ reads < MaxReads
    /\ reads' = reads + 1
    /\ UNCHANGED <<status, processedData, availableTabs, activeTab, connectionStatus>>
    /\ UNCHANGED <<pollingRef, timers, timerCount, posts, polls>>
    /\ UNCHANGED <<parserVars, callVars>>

\* reader.onload with a JSON object that has a key (lines 626-642).
ReportLoaded ==
    /\ reads > 0
    /\ reads' = reads - 1
    /\ stopPolling
    /\ \E data \in {r \in Reports : r.keys # <<>>} : Settle("completed", data)
    /\ UNCHANGED <<connectionStatus, timerCount, posts, polls>>
    /\ UNCHANGED <<parserVars, callVars>>

\* reader.onload with anything else (lines 643-646), or reader.onerror
\* (lines 651-655).
ReportRejected ==
    /\ reads > 0
    /\ reads' = reads - 1
    /\ Settle("error", Null)
    /\ UNCHANGED <<connectionStatus, pollingRef, timers, timerCount, posts, polls>>
    /\ UNCHANGED <<parserVars, callVars>>

NextApp ==
    \/ ApiUrlChanged
    \/ checkConnection
    \/ SelectTab
    \/ handleStartMonitoring
    \/ MonitoringStarted
    \/ MonitoringRefused
    \/ PollTick
    \/ PollRunning
    \/ PollCompleted
    \/ PollFailed
    \/ handleJsonFileChange
    \/ ReportLoaded
    \/ ReportRejected

\* The App as mounted, with no invocation of the parser under way.
InitApp ==
    /\ rawData = <<>>
    /\ rawLines = <<>>
    /\ lineIdx = 0
    /\ processed = EmptyObject
    /\ rawTableData = EmptyObject
    /\ ObjectCtor = EmptyObject
    /\ pc = "idle"
    /\ calls = 0
    /\ history = <<>>
    /\ AppMounted

SpecApp == InitApp /\ [][NextApp]_vars

---------------------------------------------------------------------------
(* The records of a text, as the specification's decoder defines them *)

\* The fields of every non-blank line of the text, in input order.
FieldsOf(text) ==
    LET lines == RawLines(text)
    IN  [n \in 1..Len(lines) |-> Split(lines[n], ";")]

\* Exactly 5 fields, discriminator "numero", a value that parses.
IsNumericRecord(parts) ==
    /\ Len(parts) = 5
    /\ parts[3] = numero
    /\ ~IsNaN(ParseFloat(parts[5]))

\* At least 6 fields, discriminator "tabla", a key index that parses to an
\* integer of at least 1.
IsTableRecord(parts) ==
    /\ Len(parts) >= 6
    /\ parts[3] = tabla
    /\ ~IsNaN(ParseInt(parts[5]))
    /\ ~NumLess(ParseInt(parts[5]), NumOfInt(1))

\* The elements of the set of naturals idx, in increasing order.
Ascending(idx) ==
    [k \in 1..Cardinality(idx) |->
        CHOOSE n \in idx : Cardinality({m \in idx : m <= n}) = k]

\* The elements of fields at the positions idx, in input order.
Kept(fields, idx) ==
    LET order == Ascending(idx)
    IN  [k \in 1..Len(order) |-> fields[order[k]]]

\* The numeric records of (item, series), in input order.
NumericRecords(text, item, series) ==
    LET fields == FieldsOf(text)
    IN  Kept(fields, {n \in 1..Len(fields) :
                         /\ IsNumericRecord(fields[n])
                         /\ fields[n][2] = item
                         /\ fields[n][4] = series})

\* The table records of (item, table), in input order.
TableRecords(text, item, table) ==
    LET fields == FieldsOf(text)
    IN  Kept(fields, {n \in 1..Len(fields) :
                         /\ IsTableRecord(fields[n])
                         /\ fields[n][2] = item
                         /\ fields[n][4] = table})

\* The (item, series) pairs and the (item, table) pairs that have a record.
NumericPairsOf(text) ==
    {<<parts[2], parts[4]>> : parts \in {q \in Range(FieldsOf(text)) : IsNumericRecord(q)}}

TablePairsOf(text) ==
    {<<parts[2], parts[4]>> : parts \in {q \in Range(FieldsOf(text)) : IsTableRecord(q)}}

\* The call has returned; processed is then the Report.
Returned == pc = "done"

\* The Report has a graph, a pivot table for the pair.
HasGraph(pair) ==
    /\ pair[1] \in DOMAIN processed
    /\ pair[2] \in DOMAIN processed[pair[1]].graphs

HasPivot(pair) ==
    /\ pair[1] \in DOMAIN processed
    /\ pair[2] \in DOMAIN processed[pair[1]].pivotTables

---------------------------------------------------------------------------
(* C1: graphs are the stable sort of their records by rank *)

\* Record a may stand before record b (a, b positions in input order) in a
\* sort by rank that keeps ties in input order; a record whose label has
\* no rank constrains nothing.
MayPrecede(recs, a, b) ==
    LET ra == getSortableHour(recs[a][1])
        rb == getSortableHour(recs[b][1])
    IN  \/ IsNaN(ra) \/ IsNaN(rb)
        \/ NumLess(ra, rb)
        \/ (ra = rb /\ a < b)

\* graph lists recs in an order p that is sorted by rank, ties in input
\* order.
IsStableRankSort(graph, recs) ==
    /\ DOMAIN graph = {"labels", "values"}
    /\ Len(graph.labels) = Len(recs)
    /\ Len(graph.values) = Len(recs)
    /\ \E p \in [1..Len(recs) -> 1..Len(recs)] :
         /\ \A i, j \in 1..Len(recs) : p[i] = p[j] => i = j
         /\ \A i \in 1..Len(recs) :
              /\ graph.labels[i] = recs[p[i]][1]
              /\ graph.values[i] = ParseFloat(recs[p[i]][5])
         /\ \A i, j \in 1..Len(recs) : i < j => MayPrecede(recs, p[i], p[j])

\* C1: for every input text and every (item, series), the graph of the
\* returned Report lists the valid numeric records of that item and series
\* stably sorted by Time Ordering rank: labels[i]/values[i] are the i-th
\* pair of the sort and records of equal rank keep their input order.
C1_GraphIsStableRankSort ==
    Returned =>
        \A pair \in NumericPairsOf(rawData) :
            /\ HasGraph(pair)
            /\ IsStableRankSort(processed[pair[1]].graphs[pair[2]],
                                NumericRecords(rawData, pair[1], pair[2]))

---------------------------------------------------------------------------
(* C2: the rank of a label *)

\* The text of s before its first ":" (all of s if it has none).
BeforeColon(s) ==
    LET colons == {i \in 1..Len(s) : s[i] = ":"}
    IN  IF colons = {} THEN s
        ELSE SubSeq(s, 1, (CHOOSE i \in colons : \A j \in colons : i <= j) - 1)

\* The numerals of hour h: "7" and "07", "23".
HourTexts(h) ==
    {<<DigitChars[(h \div 10) + 1], DigitChars[(h % 10) + 1]>>}
    \cup (IF h < 10 THEN {<<DigitChars[h + 1]>>} ELSE {})

\* The rank the specification gives hour h.
RankOfHour(h) == IF h < 6 THEN h + 24 ELSE h

\* The labels of the lines of the text.
LabelsOf(text) == {parts[1] : parts \in Range(FieldsOf(text))}

\* C2: getSortableHour returns 0 for the empty label and, for every label
\* whose text before the first ":" is an integer hour h in 0..23, h + 24
\* when h < 6 and h otherwise.
C2_RankOfLabel ==
    \A label \in LabelsOf(rawData) :
        LET rank == getSortableHour(label)
            hour == BeforeColon(label)
        IN  /\ label = <<>> => rank = NumOfInt(0)
            /\ \A h \in 0..23 :
                  hour \in HourTexts(h) => rank = NumOfInt(RankOfHour(h))

\* A returned graph of A/s in which the record at hour 5, first in the
\* input, stands last, after those at hours 8 and 23.
C2_Witness ==
    /\ Returned
    /\ FieldsOf(rawData) # <<>>
    /\ FieldsOf(rawData)[1][1] = h05
    /\ HasGraph(<< <<"A">>, <<"s">> >>)
    /\ processed[<<"A">>].graphs[<<"s">>].labels = <<h08, h23, h05>>

---------------------------------------------------------------------------
(* The pivot tables of the Report *)

\* The (item, table) pairs that have a pivot table in the Report.
EmittedPivots ==
    UNION {{<<item, table>> : table \in DOMAIN processed[item].pivotTables} :
              item \in DOMAIN processed}

PivotOf(pair) == processed[pair[1]].pivotTables[pair[2]]

\* The position of the Total header.
TotalIndex(headers) ==
    CHOOSE k \in 1..Len(headers) :
        headers[k] = Total /\ \A j \in 1..(k - 1) : headers[j] # Total

RECURSIVE SumOf(_)
\* The sum of the numbers the cells spell, added left to right.
SumOf(cells) ==
    IF cells = <<>> THEN Zero
    ELSE NumAdd(SumOf(Front(cells)), ParseFloat(Last(cells)))

\* The Total cell of a row and the sum of the cells that follow it.
TotalCell(row, k) == ParseFloat(row[k])
TimeCellSum(row, k) == SumOf(SubSeq(row, k + 1, Len(row)))

---------------------------------------------------------------------------
(* C3: the Total of a pivot row and the sum of its cells *)

\* C3 as the specification states it: in every emitted pivot table, for
\* every row, the Total cell equals the sum of that row's per-time-range
\* cells.
C3_TotalIsSumOfCells ==
    Returned =>
        \A pair \in EmittedPivots :
            LET k == TotalIndex(PivotOf(pair).headers)
            IN  \A r \in 1..Len(PivotOf(pair).rows) :
                    TotalCell(PivotOf(pair).rows[r], k)
                        = TimeCellSum(PivotOf(pair).rows[r], k)

\* C3, amended: in every emitted pivot table of non-negative integer
\* values, for every row whose Total is below 2^53 (where every partial sum
\* is exact in double arithmetic), the Total cell equals the sum of that
\* row's per-time-range cells.
C3_TotalIsSumOfCellsWhenExact ==
    Returned =>
        \A pair \in EmittedPivots :
            LET k == TotalIndex(PivotOf(pair).headers)
            IN  \A r \in 1..Len(PivotOf(pair).rows) :
                    NumLess(TotalCell(PivotOf(pair).rows[r], k),
                            ParseFloat(TwoTo53))
                        => TotalCell(PivotOf(pair).rows[r], k)
                               = TimeCellSum(PivotOf(pair).rows[r], k)

\* A returned pivot of A/T whose row of key a sums two records of 08:00
\* into one cell and has a second cell for 09:00: Total 11 = 10 + 1.
C3_Witness ==
    /\ Returned
    /\ HasPivot(<< <<"A">>, <<"T">> >>)
    /\ PivotOf(<< <<"A">>, <<"T">> >>).headers = <<Column \o <<"1">>, Total, h08, h09>>
    /\ PivotOf(<< <<"A">>, <<"T">> >>).rows
          = << << <<"a">>, <<"1", "1">>, <<"1", "0">>, <<"1">> >> >>

---------------------------------------------------------------------------
(* C4: the width of pivot rows *)

\* C4: in every emitted pivot table, every row has exactly as many cells
\* as the table has headers, also when the table's records have differing
\* column counts.
C4_RowWidthIsHeaderWidth ==
    Returned =>
        \A pair \in EmittedPivots :
            \A r \in 1..Len(PivotOf(pair).rows) :
                Len(PivotOf(pair).rows[r]) = Len(PivotOf(pair).headers)

\* A returned pivot of A/T with at least two rows, built from records of
\* differing column counts.
C4_Witness ==
    /\ Returned
    /\ HasPivot(<< <<"A">>, <<"T">> >>)
    /\ Len(PivotOf(<< <<"A">>, <<"T">> >>).rows) >= 2
    /\ \E a, b \in Range(TableRecords(rawData, <<"A">>, <<"T">>)) : Len(a) # Len(b)

---------------------------------------------------------------------------
(* C5: standard tables *)

\* The rows {timeRange, columns} of the table records recs.
RowsOf(recs) ==
    [n \in 1..Len(recs) |->
        [timeRange |-> recs[n][1], columns |-> SubSeq(recs[n], 6, Len(recs[n]))]]

\* C5: for every table record accepted by the decoder, the standardTables
\* of the record's item has an entry under the record's table name, whose
\* rows are exactly the accepted records of that (item, table) as
\* {timeRange, columns}, in input order.
C5_StandardTableHoldsRecords ==
    Returned =>
        \A pair \in TablePairsOf(rawData) :
            /\ pair[1] \in DOMAIN processed
            /\ pair[2] \in DOMAIN processed[pair[1]].standardTables
            /\ processed[pair[1]].standardTables[pair[2]].rows
                  = RowsOf(TableRecords(rawData, pair[1], pair[2]))

---------------------------------------------------------------------------
(* C6: the pivot width guard *)

\* The guard on the first record of a table: its 0-based grouping index
\* (key index minus 1) is at least 0 and below the index of the value
\* column, the last of the record's columns.
GuardPasses(first) ==
    LET groupingIndex == NumSub(ParseInt(first[5]), NumOfInt(1))
        valueIndex == NumOfInt((Len(first) - 5) - 1)
    IN  /\ ~NumLess(groupingIndex, Zero)
        /\ NumLess(groupingIndex, valueIndex)

\* C6: a pivot table is emitted for an (item, table) pair if and only if
\* the table's grouping index passes the guard; a table that fails it has
\* no pivotTables entry.
C6_PivotIffGuardPasses ==
    Returned =>
        /\ \A pair \in TablePairsOf(rawData) :
              HasPivot(pair)
                  <=> GuardPasses(TableRecords(rawData, pair[1], pair[2])[1])
        /\ EmittedPivots \subseteq TablePairsOf(rawData)

---------------------------------------------------------------------------
(* C7: entirely malformed input *)

\* Every line of the text is discarded by the decoder.
AllDiscarded(text) ==
    \A parts \in Range(FieldsOf(text)) :
        ~IsNumericRecord(parts) /\ ~IsTableRecord(parts)

\* C7: for input of which every line is discarded, the returned Report is
\* empty: it has no item entries.
C7_MalformedGivesEmptyReport ==
    (Returned /\ AllDiscarded(rawData)) => DOMAIN processed = {}

---------------------------------------------------------------------------
(* C8: an entry for every item *)

\* The item names of the accepted records of the text.
ItemsOf(text) ==
    {parts[2] : parts \in {q \in Range(FieldsOf(text)) :
                              IsNumericRecord(q) \/ IsTableRecord(q)}}

\* C8: every item name of an accepted numeric or table record has an entry
\* in the Report, and every entry has the three fields graphs,
\* standardTables and pivotTables.
C8_EveryItemHasEntry ==
    Returned =>
        /\ ItemsOf(rawData) \subseteq DOMAIN processed
        /\ \A item \in DOMAIN processed :
              DOMAIN processed[item] = {"graphs", "standardTables", "pivotTables"}

---------------------------------------------------------------------------
(* C9: one graph point per numeric record *)

\* The (item, series) pairs that have a graph in the Report.
EmittedGraphs ==
    UNION {{<<item, series>> : series \in DOMAIN processed[item].graphs} :
              item \in DOMAIN processed}

\* C9: a line adds a point to a graph if and only if it has exactly 5
\* fields, discriminator "numero" and a value that parses; each such line
\* adds exactly one point to the graph of its (item, series), so labels and
\* values are as many as those lines, and no other line feeds a graph.
C9_OnePointPerNumericRecord ==
    Returned =>
        /\ \A pair \in NumericPairsOf(rawData) :
              /\ HasGraph(pair)
              /\ Len(processed[pair[1]].graphs[pair[2]].labels)
                    = Len(NumericRecords(rawData, pair[1], pair[2]))
              /\ Len(processed[pair[1]].graphs[pair[2]].values)
                    = Len(NumericRecords(rawData, pair[1], pair[2]))
        /\ EmittedGraphs \subseteq NumericPairsOf(rawData)

---------------------------------------------------------------------------
(* C10: no error reaches the caller *)

\* C10: for every input text, whatever names its lines carry, the call
\* never raises an error to its caller.
C10_NeverRaises == pc # "threw"

---------------------------------------------------------------------------
(* C11: determinism across invocations *)

\* Two outcomes are the same: both raised, or both returned deeply equal
\* Reports.
SameOutcome(a, b) ==
    /\ a.threw = b.threw
    /\ ~a.threw => a.report = b.report

\* C11: two invocations on the same raw text, in any order and with any
\* other invocations in between, give the same outcome: deeply equal
\* Reports; nothing carried from an earlier invocation changes it.
C11_SameTextSameReport ==
    pc \in {"done", "threw"} =>
        \A n \in 1..Len(history) :
            history[n].text = rawData => SameOutcome(history[n].outcome, Outcome)

\* Whenever two invocations on the same text both return, their Reports
\* are deeply equal.
ReturnedReportsAgree ==
    Returned =>
        \A n \in 1..Len(history) :
            (history[n].text = rawData /\ ~history[n].outcome.threw)
                => history[n].outcome.report = processed

---------------------------------------------------------------------------
(* The table of a pair, as the specification describes it *)

\* The accepted table records of the pair in the text of this invocation,
\* in input order.
TableRecs(pair) ==
    LET fields == [n \in 1..Len(rawLines) |-> Split(rawLines[n], ";")]
    IN  Kept(fields, {n \in 1..Len(fields) :
                         /\ IsTableRecord(fields[n])
                         /\ fields[n][2] = pair[1]
                         /\ fields[n][4] = pair[2]})

\* The columns of a table record: its fields after the key index.
ColumnsOf(rec) == SubSeq(rec, 6, Len(rec))

\* The 0-based grouping index of the table whose accepted records are
\* recs: the key index declared by the first of them, minus 1.
GroupingIndexOf(recs) == MagToInt(ParseInt(recs[1][5]).mag) - 1

\* The key of a record: the text of its grouping column, as a cell shows it.
KeyOf(rec, g) == ToStr(ColumnAt(ColumnsOf(rec), g))

\* The number a column spells; 0 if it does not parse.
AmountOf(column) == OrZero(ParseFloat(column))

\* The amount of a record by the specification: that of its own last column.
OwnAmount(rec) == AmountOf(Last(rec))

\* The amount of a record by the value column of the table: the column at
\* the index of the last column of the table's first record.
TableAmount(rec, recs) ==
    AmountOf(ColumnAt(ColumnsOf(rec), Len(ColumnsOf(recs[1])) - 1))

RECURSIVE SumAmounts(_)
\* The sum of a sequence of numbers, added in order.
SumAmounts(amounts) ==
    IF amounts = <<>> THEN Zero
    ELSE NumAdd(SumAmounts(Front(amounts)), Last(amounts))

\* The records of recs that carry key k; those that also carry time range t.
WithKey(recs, g, k) ==
    Kept(recs, {n \in 1..Len(recs) : KeyOf(recs[n], g) = k})

WithKeyAt(recs, g, k, t) ==
    Kept(recs, {n \in 1..Len(recs) : KeyOf(recs[n], g) = k /\ recs[n][1] = t})

\* The key cell of a pivot row, and the positions of its time-range cells.
KeyCell(row, g) == row[g + 1]
TimeColumns(pivot) == (TotalIndex(pivot.headers) + 1)..Len(pivot.headers)

---------------------------------------------------------------------------
(* C12: the value of a row is its own last column *)

\* Total and cells of every row of the pivot are the sums of the own last
\* columns of the records with the row's key (and the cell's time range).
SumsOwnLastColumns(pivot, recs, g) ==
    \A r \in 1..Len(pivot.rows) :
        /\ TotalCell(pivot.rows[r], TotalIndex(pivot.headers))
              = SumAmounts([n \in 1..Len(WithKey(recs, g, KeyCell(pivot.rows[r], g)))
                              |-> OwnAmount(WithKey(recs, g, KeyCell(pivot.rows[r], g))[n])])
        /\ \A j \in TimeColumns(pivot) :
              ParseFloat(pivot.rows[r][j])
                 = SumAmounts([n \in 1..Len(WithKeyAt(recs, g, KeyCell(pivot.rows[r], g), pivot.headers[j]))
                                 |-> OwnAmount(WithKeyAt(recs, g, KeyCell(pivot.rows[r], g), pivot.headers[j])[n])])

\* C12: for every row of a pivoted table, the number added to the key's
\* total and to its time-range sum is taken from that row's own last
\* column, also when rows of the table have different numbers of columns.
C12_ValueIsOwnLastColumn ==
    Returned =>
        \A pair \in EmittedPivots :
            LET recs == TableRecs(pair)
            IN  SumsOwnLastColumns(PivotOf(pair), recs, GroupingIndexOf(recs))

---------------------------------------------------------------------------
(* C13: a cell is the sum of the values of its key and time range *)

\* The cell of row r under header j is the sum of amounts, and "0" when
\* no record has the row's key and the header's time range.
CellIsSum(cell, amounts) ==
    /\ ParseFloat(cell) = SumAmounts(amounts)
    /\ amounts = <<>> => cell = <<"0">>

CellsSumOwnColumns(pivot, recs, g) ==
    \A r \in 1..Len(pivot.rows) : \A j \in TimeColumns(pivot) :
        CellIsSum(pivot.rows[r][j],
                  [n \in 1..Len(WithKeyAt(recs, g, KeyCell(pivot.rows[r], g), pivot.headers[j]))
                      |-> OwnAmount(WithKeyAt(recs, g, KeyCell(pivot.rows[r], g), pivot.headers[j])[n])])

CellsSumTableColumn(pivot, recs, g) ==
    \A r \in 1..Len(pivot.rows) : \A j \in TimeColumns(pivot) :
        CellIsSum(pivot.rows[r][j],
                  [n \in 1..Len(WithKeyAt(recs, g, KeyCell(pivot.rows[r], g), pivot.headers[j]))
                      |-> TableAmount(WithKeyAt(recs, g, KeyCell(pivot.rows[r], g), pivot.headers[j])[n], recs)])

\* C13: in every emitted pivot table the cell of key k under time range t
\* is the sum of the value-column numbers (the last column of each row) of
\* all rows with key k and time range t, an unparsable value counting as 0,
\* and the cell is "0" when no row has key k and time range t.
C13_CellIsSumOfValues ==
    Returned =>
        \A pair \in EmittedPivots :
            LET recs == TableRecs(pair)
            IN  CellsSumOwnColumns(PivotOf(pair), recs, GroupingIndexOf(recs))

\* The same with the value of a row read at the index of the last column
\* of the table's first row, as line 131 fixes it.
CellIsSumOfTableColumn ==
    Returned =>
        \A pair \in EmittedPivots :
            LET recs == TableRecs(pair)
            IN  CellsSumTableColumn(PivotOf(pair), recs, GroupingIndexOf(recs))

---------------------------------------------------------------------------
(* C14: the headers of a pivot table *)

\* The time ranges of the records, and the position of the first record
\* that carries time range t.
TimeRangesOf(recs) == {recs[n][1] : n \in 1..Len(recs)}

FirstWith(recs, t) ==
    CHOOSE n \in 1..Len(recs) :
        recs[n][1] = t /\ \A m \in 1..(n - 1) : recs[m][1] # t

\* Time range a may stand before time range b in a sort by rank that keeps
\* ties in order of first appearance; a label with no rank constrains
\* nothing.
MayPrecedeHeader(recs, a, b) ==
    \/ IsNaN(getSortableHour(a)) \/ IsNaN(getSortableHour(b))
    \/ NumLess(getSortableHour(a), getSortableHour(b))
    \/ (getSortableHour(a) = getSortableHour(b) /\ FirstWith(recs, a) < FirstWith(recs, b))

\* headers is "Column 1" .. "Column n", "Total", then the time ranges of
\* recs, each once, sorted by rank.
IsHeaderRow(headers, recs, n) ==
    /\ Len(headers) = n + 1 + Cardinality(TimeRangesOf(recs))
    /\ \A i \in 1..n : headers[i] = Column \o NumToStr(NumOfInt(i))
    /\ headers[n + 1] = Total
    /\ {headers[j] : j \in (n + 2)..Len(headers)} = TimeRangesOf(recs)
    /\ \A i, j \in (n + 2)..Len(headers) :
           i < j => MayPrecedeHeader(recs, headers[i], headers[j])

\* C14: the headers of every emitted pivot table are "Column i" for
\* i = 1..(number of columns - 1), then "Total", then every distinct time
\* range of the table's rows exactly once, sorted by Time Ordering rank,
\* time ranges of equal rank in order of first appearance.
C14_HeadersInOrder ==
    Returned =>
        \A pair \in EmittedPivots :
            LET recs == TableRecs(pair)
            IN  IsHeaderRow(PivotOf(pair).headers, recs, Len(ColumnsOf(recs[1])) - 1)

\* Every time range of the text has a rank.
AllRanked ==
    \A n \in 1..Len(rawLines) : ~IsNaN(getSortableHour(Split(rawLines[n], ";")[1]))

HeadersInOrderWhenRanked == AllRanked => C14_HeadersInOrder

---------------------------------------------------------------------------
(* C15: one row per key, in order of first appearance *)

\* The value of the grouping column of a record (undefined if the record
\* has no such column).
GroupingValueOf(rec, g) == ColumnAt(ColumnsOf(rec), g)

\* The positions of the records that are the first to carry their key, in
\* input order.
FirstOfKey(recs, g) ==
    Ascending({n \in 1..Len(recs) :
                  \A m \in 1..(n - 1) :
                      GroupingValueOf(recs[m], g) # GroupingValueOf(recs[n], g)})

\* The rows of pivot are the keys of recs, one row each, in the order in
\* which the keys first appear.
OneRowPerKey(pivot, recs, g) ==
    LET firsts == FirstOfKey(recs, g)
    IN  /\ Len(pivot.rows) = Len(firsts)
        /\ \A r \in 1..Len(pivot.rows) :
               KeyCell(pivot.rows[r], g) = ToStr(GroupingValueOf(recs[firsts[r]], g))

\* C15: every emitted pivot table has exactly one row per distinct value of
\* the grouping column among the table's rows, and the rows are ordered by
\* the position in the input of the first row carrying each key.
C15_OneRowPerKeyInOrder ==
    Returned =>
        \A pair \in EmittedPivots :
            LET recs == TableRecs(pair)
            IN  OneRowPerKey(PivotOf(pair), recs, GroupingIndexOf(recs))

\* A pivot table of two keys, the second of which recurs: three records
\* with keys b, a, b give the rows b, a.
C15_Witness ==
    /\ Returned
    /\ \E pair \in EmittedPivots :
          /\ Len(TableRecs(pair)) = 3
          /\ Len(PivotOf(pair).rows) = 2
          /\ KeyCell(PivotOf(pair).rows[1], 0) = <<"b">>
          /\ KeyCell(PivotOf(pair).rows[2], 0) = <<"a">>

---------------------------------------------------------------------------
(* C16: the text cells of a row come from the first record of its key *)

\* The cells of a pivot row before its Total.
TextCells(pivot, r) == SubSeq(pivot.rows[r], 1, TotalIndex(pivot.headers) - 1)

\* The non-value columns of a record: all its columns but the last.
NonValueColumns(rec) == Front(ColumnsOf(rec))

\* Every row of pivot shows the non-value columns of the first record that
\* carries the row's key.
TextCellsOfFirst(pivot, recs, g) ==
    LET firsts == FirstOfKey(recs, g)
    IN  \A r \in 1..Len(pivot.rows) :
            r <= Len(firsts) => TextCells(pivot, r) = NonValueColumns(recs[firsts[r]])

\* C16: in every emitted pivot table the text cells of the row for key k
\* (the cells before Total) are the non-value columns of the first input
\* row that carries k, in their original order with k at the grouping
\* position; later rows with the same key never change them.
C16_TextCellsOfFirstRow ==
    Returned =>
        \A pair \in EmittedPivots :
            LET recs == TableRecs(pair)
            IN  TextCellsOfFirst(PivotOf(pair), recs, GroupingIndexOf(recs))

\* All records have as many fields as the first.
SameWidth(recs) == \A n \in 1..Len(recs) : Len(recs[n]) = Len(recs[1])

\* The same for the tables whose rows all have the same number of columns.
TextCellsOfFirstRowWhenSameWidth ==
    Returned =>
        \A pair \in EmittedPivots :
            LET recs == TableRecs(pair)
            IN  SameWidth(recs) =>
                    TextCellsOfFirst(PivotOf(pair), recs, GroupingIndexOf(recs))

---------------------------------------------------------------------------
(* C17: the key index of a table is that of its first record *)

\* The tables collected for the items of the text.
CollectedTables == TablePairs(rawTableData)

\* The collected table holds the key index of the first of recs and one
\* row for each of recs.
HoldsFirstIndex(tableData, recs) ==
    /\ recs # <<>>
    /\ tableData.keyIndex = ParseInt(recs[1][5])
    /\ tableData.rows = RowsOf(recs)

\* Every record of recs has its key, read at grouping index g, among the
\* rows of the pivot, and its time range among the headers.
EveryRecordPivoted(pivot, recs, g) ==
    \A n \in 1..Len(recs) :
        /\ \E r \in 1..Len(pivot.rows) : KeyCell(pivot.rows[r], g) = KeyOf(recs[n], g)
        /\ \E j \in TimeColumns(pivot) : pivot.headers[j] = recs[n][1]

\* C17: the key column index used to pivot an (item, table) pair is the
\* one declared by the first accepted record of the pair; later accepted
\* records of the pair that declare another valid key index are still
\* added as rows and do not change the index used.
C17_KeyIndexOfFirstRecord ==
    pc \in {"sort", "done"} =>
        /\ \A pair \in CollectedTables :
              HoldsFirstIndex(rawTableData[pair[1]][pair[2]], TableRecs(pair))
        /\ \A pair \in EmittedPivots :
              LET recs == TableRecs(pair)
              IN  EveryRecordPivoted(PivotOf(pair), recs, GroupingIndexOf(recs))

\* A returned pivot whose first record declares key index 1 and whose
\* second declares key index 2: the second is a row keyed by its first
\* column.
C17_Witness ==
    /\ Returned
    /\ \E pair \in EmittedPivots :
          /\ Len(TableRecs(pair)) = 2
          /\ TableRecs(pair)[1][5] = <<"1">>
          /\ TableRecs(pair)[2][5] = <<"2">>
          /\ Len(PivotOf(pair).rows) = 2
          /\ KeyCell(PivotOf(pair).rows[2], 0) = <<"p">>

---------------------------------------------------------------------------
(* C18: discarded table lines add nothing to a pivot table *)

\* The fields of the lines of the text that carry the discriminator
\* "tabla" and the names of the pair, and are not accepted.
DiscardedTableLines(pair) ==
    {parts \in {Split(rawLines[n], ";") : n \in 1..Len(rawLines)} :
        /\ Len(parts) >= 5
        /\ parts[3] = tabla
        /\ parts[2] = pair[1]
        /\ parts[4] = pair[2]
        /\ ~IsTableRecord(parts)}

\* Rows, keys, time ranges and totals of pivot are those of the accepted
\* records recs alone.
OnlyOfRecords(pivot, recs, g) ==
    /\ recs # <<>>
    /\ {pivot.headers[j] : j \in TimeColumns(pivot)} = TimeRangesOf(recs)
    /\ {KeyCell(pivot.rows[r], g) : r \in 1..Len(pivot.rows)}
          = {KeyOf(recs[n], g) : n \in 1..Len(recs)}
    /\ Len(pivot.rows) = Cardinality({KeyOf(recs[n], g) : n \in 1..Len(recs)})
    /\ \A r \in 1..Len(pivot.rows) :
          TotalCell(pivot.rows[r], TotalIndex(pivot.headers))
             = SumAmounts([n \in 1..Len(WithKey(recs, g, KeyCell(pivot.rows[r], g)))
                             |-> TableAmount(WithKey(recs, g, KeyCell(pivot.rows[r], g))[n], recs)])

\* C18: a "tabla" line with fewer than 6 fields, or whose key index does
\* not parse to an integer or is less than 1, is discarded: it adds no row,
\* no key, no time range and no amount to any pivot table, also when the
\* same (item, table) has accepted records.
C18_DiscardedLinesAddNothing ==
    Returned =>
        \A pair \in EmittedPivots :
            LET recs == TableRecs(pair)
            IN  OnlyOfRecords(PivotOf(pair), recs, GroupingIndexOf(recs))

\* A returned pivot of B/T from one accepted record, in a text that also
\* has a line of B/T with key index 0, key b, time range 09:00, amount 7.
C18_Witness ==
    /\ Returned
    /\ HasPivot(<< <<"B">>, <<"T">> >>)
    /\ Len(TableRecs(<< <<"B">>, <<"T">> >>)) = 1
    /\ <<h09, <<"B">>, tabla, <<"T">>, <<"0">>, <<"b">>, <<"7">>>>
          \in DiscardedTableLines(<< <<"B">>, <<"T">> >>)

---------------------------------------------------------------------------
(* C19: nothing in the Report is empty *)

GraphAt(pair) == processed[pair[1]].graphs[pair[2]]

\* C19: in the returned Report no graph is empty and no pivot table is
\* empty: every graph has at least one label/value pair, and every emitted
\* pivot table has at least one row and at least one time-range header
\* after "Total".
C19_NothingEmpty ==
    Returned =>
        /\ \A pair \in EmittedGraphs :
              /\ Len(GraphAt(pair).labels) >= 1
              /\ Len(GraphAt(pair).values) = Len(GraphAt(pair).labels)
        /\ \A pair \in EmittedPivots :
              /\ Len(PivotOf(pair).rows) >= 1
              /\ \E j \in 1..Len(PivotOf(pair).headers) : PivotOf(pair).headers[j] = Total
              /\ TimeColumns(PivotOf(pair)) # {}

\* A returned Report with a graph and a pivot table, from a text that also
\* has a numeric line whose value does not parse.
C19_Witness ==
    /\ Returned
    /\ EmittedGraphs # {}
    /\ EmittedPivots # {}
    /\ \E n \in 1..Len(rawLines) :
          LET parts == Split(rawLines[n], ";")
          IN  Len(parts) = 5 /\ parts[3] = numero /\ IsNaN(ParseFloat(parts[5]))

---------------------------------------------------------------------------
(* C20: one polling timer *)

\* C20: at any time at most one polling interval timer is active in the
\* App, under every interleaving of form submissions, pending network
\* responses, poll ticks and file loads; every timer that was started is
\* the one held in pollingRef or has been cleared.
C20_OnePollingTimer ==
    /\ Cardinality(timers) <= 1
    /\ timers \subseteq {pollingRef}

---------------------------------------------------------------------------
(* C21: poll answers after the end of a run *)

\* The step is the arrival of the answer to a poll sent by timer t.
AnswerOf(t) == t \in BagToSet(polls) /\ polls' = Answered(t)

\* C21: once a monitoring run has ended (status is 'completed' or
\* 'error'), the answer to a poll that was still in flight changes neither
\* status nor processedData; and the answer to a poll sent by a timer other
\* than the one in pollingRef, that is by an earlier run, leaves the timer
\* of the later run active and in pollingRef.
C21_EndedRunIgnoresPolls ==
    [][\A t \in BagToSet(polls) :
          AnswerOf(t) =>
              /\ status \in {"completed", "error"} =>
                     status' = status /\ processedData' = processedData
              /\ t # pollingRef =>
                     pollingRef' = pollingRef /\ timers' = timers]_vars

---------------------------------------------------------------------------
(* C22: the end of polling *)

\* The step is the arrival of a poll answer that ends the run: status
\* 'completed' or 'error', or a failed request.
PollEnds == PollCompleted \/ PollFailed

\* C22: after a poll whose answer has status 'completed' or 'error', or
\* that fails, polling is stopped: pollingRef is null and no timer is left
\* to issue a further poll request; an answer with status 'running' leaves
\* the timers and pollingRef as they are, and status 'polling' stays
\* 'polling'.
C22_PollingStopsAtTheEnd ==
    [][/\ PollEnds => pollingRef' = NoTimer /\ timers' = {}
       /\ PollRunning =>
              /\ pollingRef' = pollingRef /\ timers' = timers
              /\ status = "polling" => status' = "polling"]_vars

---------------------------------------------------------------------------
(* C23: the report, the tabs and the status *)

\* processedData, availableTabs and activeTab are all cleared.
ReportCleared ==
    processedData = Null /\ availableTabs = <<>> /\ activeTab = NoTab

\* C23: in every settled state of the App processedData is non-null only
\* when status is 'completed', and activeTab is null or one of
\* availableTabs; under every status other than 'completed', hence
\* whenever status leaves 'completed', processedData, availableTabs and
\* activeTab are all cleared.
C23_ReportOnlyWhenCompleted ==
    /\ processedData # Null => status = "completed"
    /\ activeTab = NoTab \/ activeTab \in Range(availableTabs)
    /\ status # "completed" => ReportCleared

\* A Report is shown under 'completed' and the user has chosen a tab other
\* than the first, after a monitoring run was started.
C23_Witness ==
    /\ status = "completed"
    /\ processedData # Null
    /\ timerCount > 0
    /\ activeTab \in Range(availableTabs)
    /\ activeTab # availableTabs[1]

====
